---- MODULE Spec2Model ----
(***************************************************************************)
(* Model of @sudobility/mixr_types (src/src/index.ts): the response        *)
(* envelope MixrApiResponse, the type guard isSuccessResponse and the      *)
(* module's exported constant arrays.                                      *)
(*                                                                         *)
(* An envelope is a JavaScript object: a function from the keys it owns to *)
(* ECMAScript values.  A caller receives an envelope from a producer and   *)
(* invokes isSuccessResponse on it; the model records what the call        *)
(* returned and what it left behind.                                       *)
(***************************************************************************)
EXTENDS Integers, Sequences, FiniteSets, TLC

\* ---------------------------------------------------------------- bounds

\* Number payloads range over 0..MaxNumber.
MaxNumber == 1
\* Array and object payloads have 0..MaxLen elements.
MaxLen == 1
\* A present `count` ranges over 0..MaxCount.
MaxCount == 1
\* Concurrent call sites.
NumCallers == 2
\* Envelopes the concurrent call sites share.
NumEnvelopes == 2

\* ------------------------------------------------- ECMAScript values

\* Every value is a record of the same four fields, so that any two values
\* can be compared: t is the value's type, and b, n, s hold a boolean's, a
\* number's or a string's value.  An object is identified by its class (s)
\* and its size (n).
Undefined == [t |-> "undefined", b |-> FALSE, n |-> 0, s |-> ""]
Null == [t |-> "null", b |-> FALSE, n |-> 0, s |-> ""]
Bool(x) == [t |-> "boolean", b |-> x, n |-> 0, s |-> ""]
Num(k) == [t |-> "number", b |-> FALSE, n |-> k, s |-> ""]
Str(x) == [t |-> "string", b |-> FALSE, n |-> 0, s |-> x]
Arr(len) == [t |-> "object", b |-> FALSE, n |-> len, s |-> "Array"]
Obj(size) == [t |-> "object", b |-> FALSE, n |-> size, s |-> "Object"]
True == Bool(TRUE)
False == Bool(FALSE)

\* Marks a key the object does not own.  It is no ECMAScript value: it only
\* names the choice "omit this key" when an envelope is built or recorded.
Absent == [t |-> "absent", b |-> FALSE, n |-> 0, s |-> ""]

\* ToBoolean: undefined, null, false, 0 and "" are falsy; every object,
\* the empty array and the empty object included, is truthy.
ToBoolean(v) ==
    CASE v.t = "undefined" -> FALSE
      [] v.t = "null" -> FALSE
      [] v.t = "boolean" -> v.b
      [] v.t = "number" -> v.n # 0
      [] v.t = "string" -> v.s # ""
      [] OTHER -> TRUE

\* x === y (IsStrictlyEqual): values of different types are never equal.
StrictEquals(x, y) ==
    IF x.t # y.t THEN FALSE
    ELSE CASE x.t = "undefined" -> TRUE
           [] x.t = "null" -> TRUE
           [] x.t = "boolean" -> x.b = y.b
           [] x.t = "number" -> x.n = y.n
           [] x.t = "string" -> x.s = y.s
           [] OTHER -> x = y

\* l && r: the left operand when it is falsy, the right operand otherwise.
LogicalAnd(l, r) == IF ToBoolean(l) THEN r ELSE l

\* res.key: the value of an own data property, undefined for a missing key.
Get(O, P) == IF P \in DOMAIN O THEN O[P] ELSE Undefined

\* How a call ended: `return v` completes with type "return" and the value;
\* an exception would complete with type "throw".
Return(v) == [type |-> "return", value |-> v]

\* The caller has not invoked the guard on the envelope it holds.
NoCompletion == [type |-> "none", value |-> Undefined]

\* ------------------------------------------------------- the envelope

Keys == {"success", "data", "error", "count"}

\* What `success` may hold: the declared booleans, and what untyped
\* deserialised data may put there instead (a number, a string, nothing).
SuccessValues == {True, False, Num(1), Str("true"), Absent}

\* What `data` may hold (T is unconstrained): nothing, undefined, null, and
\* booleans, numbers, strings, arrays and objects, falsy ones included.
DataValues ==
    {Absent, Undefined, Null, False, Str("")}
        \cup {Num(k) : k \in 0..MaxNumber}
        \cup {Arr(k) : k \in 0..MaxLen}
        \cup {Obj(k) : k \in 0..MaxLen}

ErrorValues == {Absent, Str("not found")}

CountValues == {Absent} \cup {Num(k) : k \in 0..MaxCount}

\* The object literal { success: s, data: d, error: e, count: c }, with the
\* keys marked Absent left out.
MakeEnvelope(s, d, e, c) ==
    LET field == [k \in Keys |->
                    CASE k = "success" -> s
                      [] k = "data" -> d
                      [] k = "error" -> e
                      [] k = "count" -> c]
    IN [k \in {x \in Keys : field[x] # Absent} |-> field[k]]

\* Every envelope a producer or a deserialiser can hand to a caller.
Envelopes ==
    {MakeEnvelope(s, d, e, c) :
        s \in SuccessValues, d \in DataValues,
        e \in ErrorValues, c \in CountValues}

\* The interface with `data: T` declared without the question mark.
MixrApiResponse_declaration_dataRequired ==
    [success |-> [type |-> "boolean", optional |-> FALSE],
     data |-> [type |-> "T", optional |-> FALSE],
     error |-> [type |-> "string", optional |-> TRUE],
     count |-> [type |-> "number", optional |-> TRUE]]

\* interface MixrApiResponse<T = unknown>: each declared field, its type and
\* whether it carries the question mark.
MixrApiResponse_declaration ==
    [success |-> [type |-> "boolean", optional |-> FALSE],
     data |-> [type |-> "T", optional |-> TRUE],
     error |-> [type |-> "string", optional |-> TRUE],
     count |-> [type |-> "number", optional |-> TRUE]]

\* Value v has the declared type ty; the type parameter T admits any value,
\* and number[] any array, the empty one included.
HasType(v, ty) ==
    CASE ty = "T" -> v.t # "absent"
      [] ty = "number[]" -> v.t = "object" /\ v.s = "Array"
      [] OTHER -> v.t = ty

\* Object O is assignable to the declared shape: it owns no undeclared key,
\* owns every required key, and each key it owns holds a value of the
\* declared type (or undefined, for an optional key).
Assignable(O, declaration) ==
    /\ DOMAIN O \subseteq DOMAIN declaration
    /\ \A k \in DOMAIN declaration :
           IF k \in DOMAIN O
           THEN \/ HasType(O[k], declaration[k].type)
                \/ declaration[k].optional /\ O[k] = Undefined
           ELSE declaration[k].optional

\* The envelope as a tagged union: a success variant with a mandatory
\* payload and no error, a failure variant with a mandatory error and no
\* payload.
MixrApiResponse_taggedUnion ==
    {e \in Envelopes :
        /\ Assignable(e, MixrApiResponse_declaration)
        /\ \/ /\ e["success"] = True
              /\ Get(e, "data") # Undefined
              /\ "error" \notin DOMAIN e
           \/ /\ e["success"] = False
              /\ "error" \in DOMAIN e
              /\ "data" \notin DOMAIN e}

\* The values of type MixrApiResponse<T>: the envelopes assignable to the
\* interface.
MixrApiResponse ==
    {e \in Envelopes : Assignable(e, MixrApiResponse_declaration)}

\* ------------------------------------------- enum types and constants

\* type EquipmentSubcategory: the members of the union.
EquipmentSubcategory == {"essential", "glassware", "garnish", "advanced"}

\* A union to which a member was added without adding it to the array.
IngredientSubcategory_extraMember ==
    {"spirit", "wine", "other_alcohol", "fruit", "spice", "other", "mixer"}

\* type IngredientSubcategory: the members of the union.
IngredientSubcategory ==
    {"spirit", "wine", "other_alcohol", "fruit", "spice", "other"}

\* Array literals with one slip each: an entry left out, an entry repeated.
EQUIPMENT_SUBCATEGORIES_omitsLast == <<"essential", "glassware", "garnish">>

EQUIPMENT_SUBCATEGORIES_repeats ==
    <<"essential", "glassware", "garnish", "garnish", "advanced">>

\* The array literal that initialises EQUIPMENT_SUBCATEGORIES.
EQUIPMENT_SUBCATEGORIES_initializer ==
    <<"essential", "glassware", "garnish", "advanced">>

\* An array literal with two entries in the other order.
INGREDIENT_SUBCATEGORIES_swapped ==
    <<"spirit", "wine", "fruit", "other_alcohol", "spice", "other">>

\* The array literal that initialises INGREDIENT_SUBCATEGORIES.
INGREDIENT_SUBCATEGORIES_initializer ==
    <<"spirit", "wine", "other_alcohol", "fruit", "spice", "other">>

\* ----------------------------------------------------------- the state

VARIABLES
    res,                        \* the envelope the caller holds
    pc,                         \* "received", "checked", or "read"
    ret,                        \* how the latest call on res completed
    payload,                    \* what the caller read as res.data, if read
    earlier,                    \* an earlier call: what it read and returned
    EQUIPMENT_SUBCATEGORIES,    \* exported array (module state)
    INGREDIENT_SUBCATEGORIES,   \* exported array (module state)
    heap,                       \* envelopes shared by concurrent callers
    frames,                     \* each concurrent caller's activation
    request                     \* the GenerateRecipeRequest a client built

vars ==
    <<res, pc, ret, payload, earlier,
      EQUIPMENT_SUBCATEGORIES, INGREDIENT_SUBCATEGORIES,
                   heap, frames, request>>

\* The client has built no request: an object that owns no key.
NoRequest == [k \in {} |-> Undefined]

\* The caller has not read res.data since it last invoked the guard.
NotRead == [t |-> "unread", b |-> FALSE, n |-> 0, s |-> ""]

\* The own property res[k], or Absent when res does not own the key.
Field(O, k) == IF k \in DOMAIN O THEN O[k] ELSE Absent

\* What is recorded of a call: the argument's success and data, the result.
Observation(O, completion) ==
    [taken |-> TRUE, success |-> Field(O, "success"),
     data |-> Field(O, "data"), ret |-> completion]

NoObservation ==
    [taken |-> FALSE, success |-> Absent, data |-> Absent, ret |-> NoCompletion]

\* ---------------------------------------------------- isSuccessResponse

\* Variants of the guard and of its invocation, each with one slip.

\* res.success === true || res.data !== undefined
isSuccessResponse_or(O) ==
    LET l == Bool(StrictEquals(Get(O, "success"), True))
        r == Bool(~StrictEquals(Get(O, "data"), Undefined))
    IN Return(IF ToBoolean(l) THEN l ELSE r)

\* res.data !== undefined
isSuccessResponse_dataOnly(O) ==
    Return(Bool(~StrictEquals(Get(O, "data"), Undefined)))

\* res.success === true
isSuccessResponse_successOnly(O) ==
    Return(Bool(StrictEquals(Get(O, "success"), True)))

\* res.success === true && !!res.data
isSuccessResponse_truthyData(O) ==
    Return(LogicalAnd(Bool(StrictEquals(Get(O, "success"), True)),
                      Bool(ToBoolean(Get(O, "data")))))

\* !!res.success && res.data !== undefined
isSuccessResponse_truthySuccess(O) ==
    Return(LogicalAnd(Bool(ToBoolean(Get(O, "success"))),
                      Bool(~StrictEquals(Get(O, "data"), Undefined))))

\* res.success === true && res.data != null
isSuccessResponse_looseNull(O) ==
    Return(LogicalAnd(Bool(StrictEquals(Get(O, "success"), True)),
                      Bool(Get(O, "data").t \notin {"undefined", "null"})))

\* res.success === true && 'data' in res
isSuccessResponse_hasKey(O) ==
    Return(LogicalAnd(Bool(StrictEquals(Get(O, "success"), True)),
                      Bool("data" \in DOMAIN O)))

\* res.success === true && res.data !== undefined && res.error === undefined
isSuccessResponse_noError(O) ==
    Return(LogicalAnd(LogicalAnd(Bool(StrictEquals(Get(O, "success"), True)),
                                 Bool(~StrictEquals(Get(O, "data"), Undefined))),
                      Bool(StrictEquals(Get(O, "error"), Undefined))))

\* res.success === true && res.data
isSuccessResponse_rawData(O) ==
    Return(LogicalAnd(Bool(StrictEquals(Get(O, "success"), True)),
                      Get(O, "data")))

\* res.success === true && res.data !== null
isSuccessResponse_notNull(O) ==
    Return(LogicalAnd(Bool(StrictEquals(Get(O, "success"), True)),
                      Bool(~StrictEquals(Get(O, "data"), Null))))

\* res.success === true && res.data !== undefined
\*     && (res.count === undefined || res.count === res.data.length)
isSuccessResponse_countMatches(O) ==
    Return(LogicalAnd(LogicalAnd(Bool(StrictEquals(Get(O, "success"), True)),
                                 Bool(~StrictEquals(Get(O, "data"), Undefined))),
                      Bool(\/ StrictEquals(Get(O, "count"), Undefined)
                           \/ Get(O, "count").n = Get(O, "data").n)))

\* res.success === true && res.error === undefined
isSuccessResponse_errorOnly(O) ==
    Return(LogicalAnd(Bool(StrictEquals(Get(O, "success"), True)),
                      Bool(StrictEquals(Get(O, "error"), Undefined))))

\* return res.success;
isSuccessResponse_flag(O) == Return(Get(O, "success"))

\* return res.success === true && res.data !== undefined;
isSuccessResponse(O) ==
    Return(LogicalAnd(Bool(StrictEquals(Get(O, "success"), True)),
                      Bool(~StrictEquals(Get(O, "data"), Undefined))))

\* --------------------------------------------------------- the actions

\* The module is loaded: the two arrays hold their literals.  The caller
\* holds some envelope and has not checked it.
Init ==
    /\ res \in Envelopes
    /\ pc = "received"
    /\ ret = NoCompletion
    /\ payload = NotRead
    /\ earlier = NoObservation
    /\ EQUIPMENT_SUBCATEGORIES = EQUIPMENT_SUBCATEGORIES_initializer
    /\ INGREDIENT_SUBCATEGORIES = INGREDIENT_SUBCATEGORIES_initializer
    /\ heap = <<>>
    /\ frames = <<>>
    /\ request = NoRequest

\* The caller, done with the envelope it checked, receives the next
\* envelope e from a producer.
Receive(e) ==
    /\ pc \in {"checked", "read"}
    /\ res' = e
    /\ pc' = "received"
    /\ ret' = NoCompletion
    /\ payload' = NotRead
    /\ UNCHANGED <<earlier, EQUIPMENT_SUBCATEGORIES, INGREDIENT_SUBCATEGORIES,
                   heap, frames, request>>

\* An invocation that also clears the payload of a reply it rejects:
\* if the guard fails, delete res.data.
Invoke_clearsData ==
    /\ ret' = isSuccessResponse(res)
    /\ pc' = "checked"
    /\ payload' = NotRead
    /\ res' = IF ret'.value = True THEN res
              ELSE [k \in DOMAIN res \ {"data"} |-> res[k]]
    /\ \E keep \in BOOLEAN :
           earlier' = IF keep THEN earlier ELSE Observation(res, ret')
    /\ UNCHANGED <<EQUIPMENT_SUBCATEGORIES, INGREDIENT_SUBCATEGORIES,
                   heap, frames, request>>

\* The caller invokes isSuccessResponse(res).  The function reads res and
\* returns; it assigns nothing.  The call is remembered as the earlier one,
\* or the one remembered before is kept.
Invoke ==
    /\ ret' = isSuccessResponse(res)
    /\ pc' = "checked"
    /\ payload' = NotRead
    /\ \E keep \in BOOLEAN :
           earlier' = IF keep THEN earlier ELSE Observation(res, ret')
    /\ UNCHANGED <<res, EQUIPMENT_SUBCATEGORIES, INGREDIENT_SUBCATEGORIES,
                   heap, frames, request>>

\* A caller that branches on the flag instead of the guard:
\* if (res.success) { ... res.data ... }
ReadPayload_branchesOnSuccess ==
    /\ pc = "checked"
    /\ ToBoolean(Get(res, "success"))
    /\ payload' = Get(res, "data")
    /\ pc' = "read"
    /\ UNCHANGED <<res, ret, earlier,
                   EQUIPMENT_SUBCATEGORIES, INGREDIENT_SUBCATEGORIES,
                   heap, frames, request>>

\* The caller branches on the result of the guard and, in the branch where
\* it was true, reads res.data:
\* if (isSuccessResponse(res)) { ... res.data ... }
ReadPayload ==
    /\ pc = "checked"
    /\ ret.type = "return"
    /\ ToBoolean(ret.value)
    /\ payload' = Get(res, "data")
    /\ pc' = "read"
    /\ UNCHANGED <<res, ret, earlier,
                   EQUIPMENT_SUBCATEGORIES, INGREDIENT_SUBCATEGORIES,
                   heap, frames, request>>

Next ==
    \/ \E e \in Envelopes : Receive(e)
    \/ Invoke
    \/ ReadPayload

Spec == Init /\ [][Next]_vars

\* ------------------------------------------------- concurrent callers

\* Several call sites invoke the guard on envelopes they share.  A call is
\* taken apart into the steps of its body, `res.success === true` first and
\* `res.data !== undefined` only if the first was true, and the steps of
\* different calls interleave in any order.

Callers == 1..NumCallers

EnvRefs == 1..NumEnvelopes

\* The envelopes the call sites share: typed ones, with or without a
\* payload and with or without an error.
SharedEnvelopes ==
    {MakeEnvelope(s, d, e, Absent) :
        s \in {True, False}, d \in {Absent, Undefined, Arr(MaxLen)},
        e \in ErrorValues}

\* A call site that is not inside a call.
IdleFrame == [pc |-> "idle", arg |-> 0, left |-> Undefined, ret |-> NoCompletion]

\* The module is loaded, the shared envelopes exist, no call is under way.
\* The single caller of the sequential specification holds { success: false }
\* and takes no step.
ConcurrentInit ==
    /\ heap \in [EnvRefs -> SharedEnvelopes]
    /\ frames = [c \in Callers |-> IdleFrame]
    /\ request = NoRequest
    /\ res = MakeEnvelope(False, Absent, Absent, Absent)
    /\ pc = "received"
    /\ ret = NoCompletion
    /\ payload = NotRead
    /\ earlier = NoObservation
    /\ EQUIPMENT_SUBCATEGORIES = EQUIPMENT_SUBCATEGORIES_initializer
    /\ INGREDIENT_SUBCATEGORIES = INGREDIENT_SUBCATEGORIES_initializer

\* Call site c invokes isSuccessResponse on the envelope at r.
Call(c, r) ==
    /\ frames[c].pc = "idle"
    /\ frames' = [frames EXCEPT ![c] =
                     [pc |-> "success", arg |-> r,
                      left |-> Undefined, ret |-> NoCompletion]]
    /\ UNCHANGED <<heap, res, pc, ret, payload, earlier,
                   EQUIPMENT_SUBCATEGORIES, INGREDIENT_SUBCATEGORIES,
                   request>>

\* The call of c evaluates res.success === true; && returns it when it is
\* false and goes on to its right operand otherwise.
EvalSuccess(c) ==
    /\ frames[c].pc = "success"
    /\ LET l == Bool(StrictEquals(Get(heap[frames[c].arg], "success"), True))
       IN frames' = [frames EXCEPT ![c] =
                        IF ToBoolean(l)
                        THEN [@ EXCEPT !.pc = "data", !.left = l]
                        ELSE [@ EXCEPT !.pc = "returned", !.left = l,
                                       !.ret = Return(l)]]
    /\ UNCHANGED <<heap, res, pc, ret, payload, earlier,
                   EQUIPMENT_SUBCATEGORIES, INGREDIENT_SUBCATEGORIES,
                   request>>

\* A guard that takes the payload out of the envelope it accepts:
\* the right operand is read, then res.data is deleted.
EvalData_takesData(c) ==
    /\ frames[c].pc = "data"
    /\ LET r == Bool(~StrictEquals(Get(heap[frames[c].arg], "data"), Undefined))
           O == heap[frames[c].arg]
       IN /\ frames' = [frames EXCEPT ![c] =
                           [@ EXCEPT !.pc = "returned", !.ret = Return(r)]]
          /\ heap' = [heap EXCEPT ![frames[c].arg] =
                         [k \in DOMAIN O \ {"data"} |-> O[k]]]
    /\ UNCHANGED <<res, pc, ret, payload, earlier,
                   EQUIPMENT_SUBCATEGORIES, INGREDIENT_SUBCATEGORIES,
                   request>>

\* The call of c evaluates res.data !== undefined and returns it.
EvalData(c) ==
    /\ frames[c].pc = "data"
    /\ LET r == Bool(~StrictEquals(Get(heap[frames[c].arg], "data"), Undefined))
       IN frames' = [frames EXCEPT ![c] =
                        [@ EXCEPT !.pc = "returned", !.ret = Return(r)]]
    /\ UNCHANGED <<heap, res, pc, ret, payload, earlier,
                   EQUIPMENT_SUBCATEGORIES, INGREDIENT_SUBCATEGORIES,
                   request>>

\* Call site c has used the result and is ready for its next call.
Resume(c) ==
    /\ frames[c].pc = "returned"
    /\ frames' = [frames EXCEPT ![c] = IdleFrame]
    /\ UNCHANGED <<heap, res, pc, ret, payload, earlier,
                   EQUIPMENT_SUBCATEGORIES, INGREDIENT_SUBCATEGORIES,
                   request>>

ConcurrentNext ==
    \/ \E c \in Callers, r \in EnvRefs : Call(c, r)
    \/ \E c \in Callers : EvalSuccess(c)
    \/ \E c \in Callers : EvalData(c)
    \/ \E c \in Callers : Resume(c)

ConcurrentSpec == ConcurrentInit /\ [][ConcurrentNext]_vars

\* ------------------------------------ requests and ad hoc responses

\* A client builds a GenerateRecipeRequest, receives replies of the four
\* shapes that do not use the envelope, and invokes the guard on them (each
\* is assignable to MixrApiResponse<unknown>: it owns a boolean success and
\* the other envelope fields are optional).

\* interface AddFavoriteResponse
AddFavoriteResponse_declaration ==
    [success |-> [type |-> "boolean", optional |-> FALSE],
     message |-> [type |-> "string", optional |-> FALSE]]

\* interface RemoveFavoriteResponse
RemoveFavoriteResponse_declaration ==
    [success |-> [type |-> "boolean", optional |-> FALSE],
     message |-> [type |-> "string", optional |-> FALSE]]

\* The health reply declared through the envelope, with its own fields
\* moved into a required data.
HealthResponse_declaration_usesEnvelope ==
    [success |-> [type |-> "boolean", optional |-> FALSE],
     data |-> [type |-> "T", optional |-> FALSE]]

\* interface HealthResponse
HealthResponse_declaration ==
    [success |-> [type |-> "boolean", optional |-> FALSE],
     status |-> [type |-> "string", optional |-> FALSE],
     timestamp |-> [type |-> "string", optional |-> FALSE]]

\* interface VersionResponse
VersionResponse_declaration ==
    [success |-> [type |-> "boolean", optional |-> FALSE],
     message |-> [type |-> "string", optional |-> FALSE],
     version |-> [type |-> "string", optional |-> FALSE]]

AdHocDeclarations ==
    {AddFavoriteResponse_declaration, RemoveFavoriteResponse_declaration,
     HealthResponse_declaration, VersionResponse_declaration}

\* What a field of an ad hoc reply may hold.
AdHocFieldValues == {True, False, Str(""), Str("healthy")}

\* The object literals that own exactly the declared keys and are
\* assignable to the declaration.
ValuesOf(declaration) ==
    {O \in [DOMAIN declaration -> AdHocFieldValues] :
        Assignable(O, declaration)}

\* Every reply of one of the four shapes.
AdHocResponses == UNION {ValuesOf(d) : d \in AdHocDeclarations}

\* interface GenerateRecipeRequest
GenerateRecipeRequest_declaration ==
    [equipment_ids |-> [type |-> "number[]", optional |-> FALSE],
     ingredient_ids |-> [type |-> "number[]", optional |-> FALSE],
     mood_id |-> [type |-> "number", optional |-> FALSE]]

RequestKeys == {"equipment_ids", "ingredient_ids", "mood_id"}

\* The object literal { equipment_ids: eq, ingredient_ids: ing,
\* mood_id: mood }, with the keys marked Absent left out.
MakeRequest(eq, ing, mood) ==
    LET field == [k \in RequestKeys |->
                    CASE k = "equipment_ids" -> eq
                      [] k = "ingredient_ids" -> ing
                      [] k = "mood_id" -> mood]
    IN [k \in {x \in RequestKeys : field[x] # Absent} |-> field[k]]

\* The object literals a client may write for a request: each key given or
\* left out, the arrays of 0..MaxLen ids.
RequestCandidates ==
    {MakeRequest(eq, ing, mood) :
        eq \in {Absent} \cup {Arr(k) : k \in 0..MaxLen},
        ing \in {Absent} \cup {Arr(k) : k \in 0..MaxLen},
        mood \in {Absent} \cup {Num(k) : k \in 0..MaxNumber}}

\* A request shape that enforces what the field comments ask for: both
\* arrays non-empty.
AcceptsRequest_nonEmpty(o) ==
    /\ Assignable(o, GenerateRecipeRequest_declaration)
    /\ o["equipment_ids"].n > 0
    /\ o["ingredient_ids"].n > 0

\* const request: GenerateRecipeRequest = o is accepted.
AcceptsRequest(o) == Assignable(o, GenerateRecipeRequest_declaration)

\* The module is loaded; the client holds a reply it has not checked and
\* has built no request.
ClientInit ==
    /\ res \in AdHocResponses
    /\ pc = "received"
    /\ ret = NoCompletion
    /\ payload = NotRead
    /\ earlier = NoObservation
    /\ EQUIPMENT_SUBCATEGORIES = EQUIPMENT_SUBCATEGORIES_initializer
    /\ INGREDIENT_SUBCATEGORIES = INGREDIENT_SUBCATEGORIES_initializer
    /\ heap = <<>>
    /\ frames = <<>>
    /\ request = NoRequest

\* The client writes the request literal o, which the shape accepts.
BuildRequest(o) ==
    /\ AcceptsRequest(o)
    /\ request' = o
    /\ UNCHANGED <<res, pc, ret, payload, earlier,
                   EQUIPMENT_SUBCATEGORIES, INGREDIENT_SUBCATEGORIES,
                   heap, frames>>

ClientNext ==
    \/ \E o \in RequestCandidates : BuildRequest(o)
    \/ \E e \in AdHocResponses : Receive(e)
    \/ Invoke

ClientSpec == ClientInit /\ [][ClientNext]_vars

\* ---------------------------------------------------------- properties

\* The call on the envelope held has returned, and ret is its completion.
Checked == pc = "checked"

\* e.success is the boolean true.
SuccessIsTrue == "success" \in DOMAIN res /\ res["success"] = Bool(TRUE)

\* e.success is the boolean false.
SuccessIsFalse == "success" \in DOMAIN res /\ res["success"] = Bool(FALSE)

\* e.data is present: the key is there and does not hold undefined.
DataIsPresent == "data" \in DOMAIN res /\ res["data"].t # "undefined"

ReturnedTrue == ret = [type |-> "return", value |-> Bool(TRUE)]

ReturnedFalse == ret = [type |-> "return", value |-> Bool(FALSE)]

\* C1: after any call, the guard has returned true if and only if the
\* envelope's success is the boolean true and its data is present; this
\* holds for every combination of success, data, error and count.
C1_TrueIffSuccessAndData ==
    Checked => (ReturnedTrue <=> (SuccessIsTrue /\ DataIsPresent))

\* A call returned true on a success envelope with a payload, an error text
\* and a count all present.
C1_Witness ==
    /\ Checked /\ ReturnedTrue
    /\ SuccessIsTrue /\ DataIsPresent
    /\ DOMAIN res = Keys

\* C2: on an envelope whose success is false the guard returns false,
\* whether or not data is present.
C2_FalseWhenNotSuccess ==
    (Checked /\ SuccessIsFalse) => ReturnedFalse

\* A call returned false on a failed reply that carries a payload.
C2_Witness ==
    Checked /\ SuccessIsFalse /\ DataIsPresent /\ ReturnedFalse

\* C3: on an envelope whose success is true and whose data is absent (no
\* data key, or undefined) the guard returns false.
C3_FalseWhenDataAbsent ==
    (Checked /\ SuccessIsTrue /\ ~DataIsPresent) => ReturnedFalse

\* A call returned false on { success: true } with no data key.
C3_Witness ==
    Checked /\ SuccessIsTrue /\ "data" \notin DOMAIN res /\ ReturnedFalse

\* The payloads that are defined and falsy or empty: 0, "", false, [], {}.
FalsyButDefined == {Num(0), Str(""), Bool(FALSE), Arr(0), Obj(0)}

\* C4: on an envelope whose success is true and whose data is present the
\* guard returns true, also when the payload is 0, "", false, [] or {}.
C4_TrueWhenDataPresent ==
    /\ (Checked /\ SuccessIsTrue /\ DataIsPresent) => ReturnedTrue
    /\ (Checked /\ SuccessIsTrue /\ Field(res, "data") \in FalsyButDefined)
           => ReturnedTrue

\* A call returned true on { success: true, data: 0 }.
C4_Witness ==
    Checked /\ SuccessIsTrue /\ Field(res, "data") = Num(0) /\ ReturnedTrue

\* The truthy values of success that are not the boolean true.
TruthyNotTrue == {Num(1), Str("true")}

\* C5: success is compared strictly with the boolean true: when success
\* holds 1 or "true" the guard returns false even though data is present.
C5_StrictSuccess ==
    (Checked /\ Field(res, "success") \in TruthyNotTrue /\ DataIsPresent)
        => ReturnedFalse

\* A call returned false on { success: 1, data: <present> }.
C5_Witness ==
    /\ Checked /\ Field(res, "success") = Num(1)
    /\ DataIsPresent /\ ReturnedFalse

\* C6: an explicit null payload counts as present: on { success: true,
\* data: null } the guard returns true.
C6_NullIsPresent ==
    (Checked /\ SuccessIsTrue /\ Field(res, "data") = Null) => ReturnedTrue

\* A call returned true on an envelope with success true and data null.
C6_Witness ==
    Checked /\ SuccessIsTrue /\ Field(res, "data") = Null /\ ReturnedTrue

\* What the caller's next statement reads as res.data.
PayloadRead == IF "data" \in DOMAIN res THEN res["data"] ELSE Undefined

\* C7: the narrowing is sound: whenever the guard has returned true, success
\* is the boolean true and reading res.data does not give undefined.
C7_NarrowingSound ==
    (Checked /\ ReturnedTrue)
        => (SuccessIsTrue /\ DataIsPresent /\ PayloadRead # Undefined)

\* The guard passed on an envelope with an object payload (the Recipe of
\* the narrowing test) and the payload read is that object.
C7_Witness ==
    /\ Checked /\ ReturnedTrue
    /\ PayloadRead.t = "object" /\ PayloadRead.s = "Object"

\* C8: two calls on envelopes with the same success and data return the
\* same result, whatever else the envelopes hold and whatever calls were
\* made in between.
C8_Deterministic ==
    (/\ Checked /\ earlier.taken
     /\ earlier.success = Field(res, "success")
     /\ earlier.data = Field(res, "data"))
        => earlier.ret = ret

\* Two calls agreed on envelopes that agree on success and data: the later
\* envelope carries an error the guard does not look at.
C8_Witness ==
    /\ Checked /\ earlier.taken
    /\ earlier.success = Field(res, "success")
    /\ earlier.data = Field(res, "data")
    /\ earlier.ret = ret
    /\ SuccessIsTrue /\ DataIsPresent /\ "error" \in DOMAIN res

\* C9: a call mutates nothing: across every step that completes a call the
\* envelope keeps its keys and their values, and the module's arrays keep
\* theirs.
C9_MutatesNothing ==
    [][pc' = "checked" =>
         /\ DOMAIN res' = DOMAIN res
         /\ \A k \in DOMAIN res : res'[k] = res[k]
         /\ EQUIPMENT_SUBCATEGORIES' = EQUIPMENT_SUBCATEGORIES
         /\ INGREDIENT_SUBCATEGORIES' = INGREDIENT_SUBCATEGORIES]_vars

\* A call was rejected on an envelope that still carries all four keys.
C9_Witness ==
    Checked /\ ReturnedFalse /\ DOMAIN res = Keys

\* The envelope violates the producer convention: success without data,
\* failure with data, both data and error, or neither.
ViolatesConvention ==
    \/ SuccessIsTrue /\ ~DataIsPresent
    \/ SuccessIsFalse /\ DataIsPresent
    \/ DataIsPresent /\ "error" \in DOMAIN res
    \/ ~DataIsPresent /\ "error" \notin DOMAIN res

\* C10: the guard is total: every call returns, and returns the boolean
\* true or the boolean false, also on envelopes that violate the producer
\* convention.
C10_Total ==
    Checked =>
        /\ ret.type = "return"
        /\ ret.value \in {Bool(TRUE), Bool(FALSE)}
        /\ ReturnedTrue # ReturnedFalse

\* A call returned a boolean on an envelope with both data and error.
C10_Witness ==
    /\ Checked /\ ViolatesConvention
    /\ DataIsPresent /\ "error" \in DOMAIN res
    /\ ret.type = "return" /\ ret.value.t = "boolean"

\* The entries of an array, as a set.
Entries(a) == {a[i] : i \in 1..Len(a)}

\* C11: EQUIPMENT_SUBCATEGORIES is the sequence 'essential', 'glassware',
\* 'garnish', 'advanced', in that order, and its length is 4.
C11_EquipmentSequence ==
    /\ Len(EQUIPMENT_SUBCATEGORIES) = 4
    /\ EQUIPMENT_SUBCATEGORIES[1] = "essential"
    /\ EQUIPMENT_SUBCATEGORIES[2] = "glassware"
    /\ EQUIPMENT_SUBCATEGORIES[3] = "garnish"
    /\ EQUIPMENT_SUBCATEGORIES[4] = "advanced"

\* After a call of the guard the equipment array still ends with
\* 'advanced' at index 4.
C11_Witness ==
    /\ Checked
    /\ Len(EQUIPMENT_SUBCATEGORIES) = 4
    /\ EQUIPMENT_SUBCATEGORIES[4] = "advanced"

\* C12: INGREDIENT_SUBCATEGORIES is the sequence 'spirit', 'wine',
\* 'other_alcohol', 'fruit', 'spice', 'other', in that order, and its
\* length is 6.
C12_IngredientSequence ==
    /\ Len(INGREDIENT_SUBCATEGORIES) = 6
    /\ INGREDIENT_SUBCATEGORIES[1] = "spirit"
    /\ INGREDIENT_SUBCATEGORIES[2] = "wine"
    /\ INGREDIENT_SUBCATEGORIES[3] = "other_alcohol"
    /\ INGREDIENT_SUBCATEGORIES[4] = "fruit"
    /\ INGREDIENT_SUBCATEGORIES[5] = "spice"
    /\ INGREDIENT_SUBCATEGORIES[6] = "other"

\* After a call of the guard the ingredient array has 'other_alcohol'
\* before 'fruit'.
C12_Witness ==
    /\ Checked
    /\ Len(INGREDIENT_SUBCATEGORIES) = 6
    /\ INGREDIENT_SUBCATEGORIES[3] = "other_alcohol"
    /\ INGREDIENT_SUBCATEGORIES[4] = "fruit"

\* C13: the arrays and the union types are aligned: every entry of each
\* array is a member of its union, and every member of each union is an
\* entry of its array.
C13_ConstantTypeAlignment ==
    /\ Entries(EQUIPMENT_SUBCATEGORIES) \subseteq EquipmentSubcategory
    /\ EquipmentSubcategory \subseteq Entries(EQUIPMENT_SUBCATEGORIES)
    /\ Entries(INGREDIENT_SUBCATEGORIES) \subseteq IngredientSubcategory
    /\ IngredientSubcategory \subseteq Entries(INGREDIENT_SUBCATEGORIES)

\* The arrays are loaded, and the members 'glassware' and 'spice' are
\* found in them.
C13_Witness ==
    /\ \E i \in 1..Len(EQUIPMENT_SUBCATEGORIES) :
           EQUIPMENT_SUBCATEGORIES[i] = "glassware"
    /\ \E i \in 1..Len(INGREDIENT_SUBCATEGORIES) :
           INGREDIENT_SUBCATEGORIES[i] = "spice"
    /\ "glassware" \in EquipmentSubcategory
    /\ "spice" \in IngredientSubcategory

\* C14: neither array holds an entry twice: the number of distinct entries
\* is the array's length.
C14_NoDuplicates ==
    /\ Cardinality(Entries(EQUIPMENT_SUBCATEGORIES))
           = Len(EQUIPMENT_SUBCATEGORIES)
    /\ Cardinality(Entries(INGREDIENT_SUBCATEGORIES))
           = Len(INGREDIENT_SUBCATEGORIES)

\* Both arrays are non-empty and any two indices of each hold different
\* entries.
C14_Witness ==
    /\ Len(EQUIPMENT_SUBCATEGORIES) > 1
    /\ Len(INGREDIENT_SUBCATEGORIES) > 1
    /\ \A i, j \in 1..Len(EQUIPMENT_SUBCATEGORIES) :
           i # j => EQUIPMENT_SUBCATEGORIES[i] # EQUIPMENT_SUBCATEGORIES[j]
    /\ \A i, j \in 1..Len(INGREDIENT_SUBCATEGORIES) :
           i # j => INGREDIENT_SUBCATEGORIES[i] # INGREDIENT_SUBCATEGORIES[j]

\* The three fields declared with a question mark.
OptionalKeys == {"data", "error", "count"}

\* Whatever subset of the optional keys is left out, some envelope of the
\* type owns exactly the remaining keys.
EverySubsetOmittable ==
    \A omitted \in SUBSET OptionalKeys :
        \E e \in MixrApiResponse :
            DOMAIN e = {"success"} \cup (OptionalKeys \ omitted)

\* C15: the envelope type declares exactly the four fields success, data,
\* error and count; success is a required boolean; data, error and count
\* are independently optional, so for every subset of the three there is a
\* valid envelope that omits exactly that subset; and every envelope of the
\* type owns a boolean success and no key beyond the four.
C15_EnvelopeShape ==
    /\ DOMAIN MixrApiResponse_declaration
           = {"success", "data", "error", "count"}
    /\ MixrApiResponse_declaration["success"]
           = [type |-> "boolean", optional |-> FALSE]
    /\ EverySubsetOmittable
    /\ res \in MixrApiResponse =>
           /\ "success" \in DOMAIN res
           /\ res["success"].t = "boolean"
           /\ DOMAIN res \subseteq {"success", "data", "error", "count"}

\* The caller holds, and has checked, a valid envelope that omits all of
\* data, error and count.
C15_Witness ==
    Checked /\ res \in MixrApiResponse /\ DOMAIN res = {"success"}

\* Every object literal with a boolean success, any data or none, any error
\* or none and any count or none is a value of the type.
EveryCombinationValid ==
    \A s \in {Bool(TRUE), Bool(FALSE)} :
    \A d \in DataValues, e \in ErrorValues, c \in CountValues :
        MakeEnvelope(s, d, e, c) \in MixrApiResponse

\* C18: the type does not enforce the convention: for success true and for
\* success false, with data present or absent and error present or absent,
\* the envelope is a value of the type; so is whatever envelope with a
\* boolean success the caller holds.
C18_ConventionNotEnforced ==
    /\ EveryCombinationValid
    /\ (SuccessIsTrue \/ SuccessIsFalse) => res \in MixrApiResponse

\* The caller holds a valid envelope with success true, no data and an
\* error.
C18_Witness ==
    /\ res \in MixrApiResponse
    /\ SuccessIsTrue /\ ~DataIsPresent /\ "error" \in DOMAIN res

\* C16: a caller that invokes the guard on whatever envelope it received
\* and reads the payload only in the branch where the guard returned true,
\* the envelope being the same at the check and at the read, never reads
\* an undefined payload: what it reads is the data the envelope owns.
C16_ReadSeesPayload ==
    pc = "read" =>
        /\ payload.t \notin {"undefined", "unread", "absent"}
        /\ "data" \in DOMAIN res
        /\ payload = res["data"]

\* The caller read the payload 0 of an envelope that breaks the convention:
\* it carries an error next to its data.
C16_Witness ==
    /\ pc = "read"
    /\ payload = Num(0)
    /\ "error" \in DOMAIN res

\* The envelope held, with `data: undefined` in place of a missing data key
\* and a missing data key in place of `data: undefined`.
Twin ==
    MakeEnvelope(Field(res, "success"),
                 IF "data" \in DOMAIN res THEN Absent ELSE Undefined,
                 Field(res, "error"), Field(res, "count"))

\* C19: an envelope whose data key holds undefined and an envelope with no
\* data key are treated alike: on either the guard returns false, whatever
\* success holds, and it returns the same on the other one.
C19_ExplicitUndefinedIsAbsent ==
    (Checked /\ Field(res, "data") \in {Absent, Undefined}) =>
        /\ ReturnedFalse
        /\ isSuccessResponse(Twin) = ret

\* A call returned false on { success: true, data: undefined }.
C19_Witness ==
    /\ Checked /\ ReturnedFalse /\ SuccessIsTrue
    /\ "data" \in DOMAIN res /\ res["data"] = Undefined

\* The payloads d that are present exactly when the payload held is.
SamePresence ==
    {d \in DataValues : (d \notin {Absent, Undefined}) <=> DataIsPresent}

\* C20: the result depends only on success and on whether data is present:
\* every envelope with the same success and a payload present exactly when
\* the held one's is, whatever its error (present or not) and its count
\* (present or not, equal to the payload's size or not), gets the result
\* the held envelope got.
C20_DependsOnSuccessAndDataOnly ==
    Checked =>
        \A d \in SamePresence, e \in ErrorValues, c \in CountValues :
            isSuccessResponse(MakeEnvelope(Field(res, "success"), d, e, c))
                = ret

\* The guard returned true on an envelope whose count, 1, disagrees with
\* the size of its payload, the empty array.
C20_Witness ==
    /\ Checked /\ ReturnedTrue
    /\ Field(res, "data") = Arr(0)
    /\ Field(res, "count") = Num(1)

\* C17: under any interleaving of the calls of several call sites, on the
\* same envelope or on different ones, every call that has returned has
\* returned what the guard returns on its envelope when run alone, and no
\* step changes an envelope.
C17_ConcurrentCallsIndependent ==
    /\ [](\A c \in Callers :
              frames[c].pc = "returned" =>
                  frames[c].ret = isSuccessResponse(heap[frames[c].arg]))
    /\ [][heap' = heap]_vars

\* Two call sites have both returned true from calls on the same envelope.
C17_Witness ==
    \E c, d \in Callers :
        /\ c # d
        /\ frames[c].pc = "returned" /\ frames[d].pc = "returned"
        /\ frames[c].arg = frames[d].arg
        /\ frames[c].ret = [type |-> "return", value |-> Bool(TRUE)]
        /\ frames[d].ret = [type |-> "return", value |-> Bool(TRUE)]

\* The envelope held obeys the producer convention: success true comes with
\* data and without error, success false with error and without data.
ObeysConvention ==
    /\ SuccessIsTrue => (DataIsPresent /\ "error" \notin DOMAIN res)
    /\ SuccessIsFalse => ("error" \in DOMAIN res /\ ~DataIsPresent)

\* C21: on an envelope of the type (its success is a boolean) that obeys the
\* producer convention the guard returns the value of success; and on any
\* envelope of the type the result differs from success exactly when
\* success is true and data is absent.
C21_EqualsSuccessUnderConvention ==
    (Checked /\ res \in MixrApiResponse) =>
        /\ ret.type = "return"
        /\ ObeysConvention => ret.value = res["success"]
        /\ ret.value # res["success"] <=> (SuccessIsTrue /\ ~DataIsPresent)

\* A call returned false, the value of success, on a failed reply that
\* obeys the convention: an error and no data.
C21_Witness ==
    /\ Checked /\ res \in MixrApiResponse /\ ObeysConvention
    /\ SuccessIsFalse /\ "error" \in DOMAIN res /\ "data" \notin DOMAIN res
    /\ ret.value = res["success"]

\* No declaration of the four ad hoc shapes has a data, error or count field.
NoEnvelopeField ==
    \A d \in AdHocDeclarations : DOMAIN d \cap {"data", "error", "count"} = {}

\* C22: the four ad hoc shapes do not use the envelope: AddFavoriteResponse
\* and RemoveFavoriteResponse declare exactly success and message,
\* HealthResponse exactly success, status and timestamp, VersionResponse
\* exactly success, message and version; none declares data, error or
\* count, and no reply of these shapes the client holds owns such a key.
C22_AdHocShapes ==
    /\ DOMAIN AddFavoriteResponse_declaration = {"success", "message"}
    /\ DOMAIN RemoveFavoriteResponse_declaration = {"success", "message"}
    /\ DOMAIN HealthResponse_declaration = {"success", "status", "timestamp"}
    /\ DOMAIN VersionResponse_declaration = {"success", "message", "version"}
    /\ NoEnvelopeField
    /\ DOMAIN res \cap {"data", "error", "count"} = {}
    /\ DOMAIN res \in {{"success", "message"},
                       {"success", "status", "timestamp"},
                       {"success", "message", "version"}}

\* The client holds a health reply: success, status and timestamp, nothing
\* else.
C22_Witness ==
    /\ DOMAIN res = {"success", "status", "timestamp"}
    /\ res["status"] = Str("healthy")

\* C23: on every value of one of the four ad hoc shapes the guard returns
\* false, also when the value's success is true: the value has no data.
C23_AdHocNeverSuccess ==
    (Checked /\ res \in AdHocResponses) => ReturnedFalse

\* The guard returned false on a favourite or version reply whose success
\* is true.
C23_Witness ==
    /\ Checked /\ ReturnedFalse /\ SuccessIsTrue
    /\ res \in AdHocResponses /\ "message" \in DOMAIN res

\* The request literal with both arrays empty is accepted, whatever its
\* mood_id.
EmptyArraysAccepted ==
    \A m \in 0..MaxNumber : AcceptsRequest(MakeRequest(Arr(0), Arr(0), Num(m)))

\* A literal is accepted only if it gives all three fields.
ThreeFieldsRequired ==
    \A o \in RequestCandidates : AcceptsRequest(o) => DOMAIN o = RequestKeys

====
